---- MODULE Spec2Model ----
(***************************************************************************)
(* Instalker: the profile synchronisation run of src/src/core/instagram.py *)
(* (class Instagram) over the relational store of src/src/core/db.py.      *)
(*                                                                         *)
(* Spec      : one process lifetime, Instagram(...) followed by run().     *)
(* SpecStore : _upsert_profile_to_db called again and again on one store   *)
(*             (what a succession of runs does to the store).              *)
(* SpecCli   : the commands of src/cli.py, the JSON import of              *)
(*             src/src/core/import_users.py and upserts on one store.      *)
(* SpecSweep : a FileManager of src/src/core/file_manager.py and the calls *)
(*             of remove_old_files and remove_small_images on it, with the *)
(*             tasks of the thread pool as separate steps.                 *)
(* SpecRemove: the tasks of the sweeps called one at a time while another  *)
(*             process may delete the file under _remove_file.             *)
(* SpecRace  : two runs, each with a database session of its own, inside   *)
(*             _upsert_profile_to_db on one store, with every statement a  *)
(*             separate step.                                              *)
(***************************************************************************)
EXTENDS Naturals, Integers, Sequences, FiniteSets, TLC

VARIABLES db, pc, users, highlights, conn, context_username,
          todo, profile, db_profile, log,
          files, media_files, problematic_files, sweep_pc, job, results,
          folded, removed_count, failed_removals, io, injected, calls,
          sessions

\* db               the committed rows of the tables of src/src/core/db.py
\* pc               where the process is: "start" (before Instagram(...)),
\*                  "constructed", the loop of _download at "fetch", "upsert"
\*                  or "dispatch", "done" (run returned), "exit" (SystemExit),
\*                  "crashed" (another exception left run or __init__)
\* users            self.users
\* highlights       self.highlights
\* conn             self.conn: NULL (never set), "open" or "closed"
\* context_username self.loader.context.username
\* todo             what sorted(self.users) has still to yield, the entry
\*                  being processed first
\* profile          _download's profile
\* db_profile       _download's db_profile
\* log              the calls made so far, in order (SpecCli: the command
\*                  just executed)
\* files            the download directory: for every path what the file is
\*                  (present, st_mtime in days, st_size, the image in it)
\* media_files      self.media_files of the FileManager
\* problematic_files  the problematic_files of the last _get_files
\* sweep_pc         "idle", "old" (inside remove_old_files), "small" (inside
\*                  remove_small_images) or "returned"
\* job              the call in progress or the last one: op, argument and
\*                  the list of paths it works on
\* results          per position of job.items the FileResult of its task,
\*                  None while the task has not finished
\* folded           the positions whose result the calling thread has folded
\* removed_count    the local removed_count of the sweep
\* failed_removals  the local failed_removals of the sweep
\* io               per path, how stat, Image.open and the removal answered
\*                  in this sweep
\* injected         how many calls the operating system has failed so far
\* calls            the sweeps that have returned, in order, each with its
\*                  results and with the summary it logged
\* sessions         per concurrent run, where its _upsert_profile_to_db is
\*                  and what its session holds: the payload, the rows the
\*                  selects returned, the loaded collections, the result
runVars == <<db, pc, users, highlights, conn, context_username,
             todo, profile, db_profile, log>>
fmVars == <<files, media_files, problematic_files, sweep_pc, job, results, folded,
            removed_count, failed_removals, io, injected, calls>>
raceVars == <<sessions>>
vars == <<runVars, fmVars, raceVars>>

\* ------------------------------------------------------------------ data

NULL == "NULL"

\* An optional value (T | None): <<>> is None, <<x>> is x.
None == <<>>
Some(x) == <<x>>

\* Longest biography_hashtags / biography_mentions list of a fetched profile.
MaxTagTokens == 2
MaxMentionTokens == 1

Usernames == {"alice", "bob"}
\* sorted(self.users) iterates in string order.
UserOrder == <<"alice", "bob">>
Tags == {"t1", "t2"}
MentionNames == {"m1"}

SeqsUpTo(S, n) == UNION {[1..k -> S] : k \in 0..n}

Range(s) == {s[i] : i \in 1..Len(s)}

\* instaloader.Profile as read by _upsert_profile_to_db and _download: the
\* token lists are re.findall results and may repeat a token.
RemoteProfiles ==
    [username : Usernames,
     is_private : BOOLEAN,
     followed_by_viewer : BOOLEAN,
     biography_hashtags : SeqsUpTo(Tags, MaxTagTokens),
     biography_mentions : SeqsUpTo(MentionNames, MaxMentionTokens)]

\* ------------------------------------------------------------------ store

EmptyStore ==
    [profiles |-> {}, hashtags |-> {}, mentions |-> {},
     profile_hashtags |-> {}, profile_mentions |-> {}]

NextId(rows) ==
    IF rows = {} THEN 1
    ELSE (CHOOSE m \in {r.id : r \in rows} : \A r \in rows : r.id <= m) + 1

\* Profile(username=..., is_private=...) as the CLI's add command stores it.
NewProfileRowM(rows, username, is_private) ==
    [id |-> NextId(rows), username |-> username, is_private |-> FALSE,
     followed_by_viewer |-> None]
NewProfileRow(rows, username, is_private) ==
    [id |-> NextId(rows), username |-> username, is_private |-> is_private,
     followed_by_viewer |-> None]

RECURSIVE AddedStore(_, _)
AddedStore(names, priv) ==
    IF names = <<>> THEN EmptyStore
    ELSE LET d == AddedStore(SubSeq(names, 1, Len(names) - 1), priv)
             u == names[Len(names)]
         IN [d EXCEPT !.profiles = @ \cup {NewProfileRow(@, u, priv[u])}]

\* The stores a run can start from: any of the usernames added beforehand.
InitialStores ==
    {AddedStore(SelectSeq(UserOrder, LAMBDA u : u \in S), priv) :
        S \in SUBSET Usernames, priv \in [Usernames -> BOOLEAN]}

\* unique=True on Profile.username, Hashtag.tag, Mention.username.
UniqueUsername(rows) ==
    \A r1 \in rows : \A r2 \in rows : r1.username = r2.username => r1 = r2

UniqueTagM(rows) == TRUE
UniqueTag(rows) ==
    \A r1 \in rows : \A r2 \in rows : r1.tag = r2.tag => r1 = r2

\* The composite primary key of an association table: inserting the same
\* (profile, tag) pair twice in one flush violates it.
NoRepeat(s) == \A i \in 1..Len(s) : \A j \in 1..Len(s) : s[i] = s[j] => i = j

\* Hashtag(tag=tag_text) for every token whose select found no row; the
\* session does not autoflush, so a token repeated in the list is not found
\* the second time either and gets a second pending object.
PendingTokens(texts, tokens) == SelectSeq(tokens, LAMBDA t : t \notin texts)

RECURSIVE InsertHashtags(_, _)
InsertHashtags(rows, pending) ==
    IF pending = <<>> THEN rows
    ELSE InsertHashtags(rows \cup {[id |-> NextId(rows), tag |-> Head(pending)]},
                        Tail(pending))

RECURSIVE InsertMentions(_, _)
InsertMentions(rows, pending) ==
    IF pending = <<>> THEN rows
    ELSE InsertMentions(rows \cup {[id |-> NextId(rows), username |-> Head(pending)]},
                        Tail(pending))

HashtagId(rows, t) == (CHOOSE r \in rows : r.tag = t).id
MentionId(rows, m) == (CHOOSE r \in rows : r.username = m).id

\* The association rows a flush inserts for one profile: one per element of
\* the assigned list that was not in the collection before.
AddedPairs(pid, ids, original) ==
    LET fresh == SelectSeq(ids, LAMBDA h : <<pid, h>> \notin original)
    IN [i \in 1..Len(fresh) |-> <<pid, fresh[i]>>]

\* db_profile.hashtags = hashtags replaces the collection: rows of the
\* profile that are not in the new list are deleted, the new ones inserted.
ReplacedPairsM(assoc, pid, ids) ==
    assoc \cup {<<pid, ids[i]>> : i \in 1..Len(ids)}
ReplacedPairs(assoc, pid, ids) ==
    {a \in assoc : a[1] # pid} \cup {<<pid, ids[i]>> : i \in 1..Len(ids)}

\* Instagram._upsert_profile_to_db, its try block up to the commit.  Result:
\* the store as the statements issued so far have written it, and whether
\* every statement succeeded.  fault: "none", or the statement at which the
\* connection fails ("select": the first query, "commit": the COMMIT).
Flush(d, p, fault) ==
    LET found == {r \in d.profiles : r.username = p.username}
        newTags == PendingTokens({r.tag : r \in d.hashtags}, p.biography_hashtags)
        newMentions == PendingTokens({r.username : r \in d.mentions},
                                     p.biography_mentions)
        hashtags == InsertHashtags(d.hashtags, newTags)
        mentions == InsertMentions(d.mentions, newMentions)
        d1 == [d EXCEPT !.hashtags = hashtags]
        d2 == [d1 EXCEPT !.mentions = mentions]
        row == IF found = {}
               THEN [NewProfileRow(d.profiles, p.username, p.is_private)
                        EXCEPT !.followed_by_viewer = Some(p.followed_by_viewer)]
               ELSE [(CHOOSE r \in found : TRUE)
                        EXCEPT !.is_private = p.is_private,
                               !.followed_by_viewer = Some(p.followed_by_viewer)]
        profiles == {r \in d.profiles : r.username # p.username} \cup {row}
        d3 == [d2 EXCEPT !.profiles = profiles]
        hids == [i \in 1..Len(p.biography_hashtags) |->
                    HashtagId(hashtags, p.biography_hashtags[i])]
        mids == [i \in 1..Len(p.biography_mentions) |->
                    MentionId(mentions, p.biography_mentions[i])]
        d4 == [d3 EXCEPT !.profile_hashtags = ReplacedPairs(@, row.id, hids)]
        d5 == [d4 EXCEPT !.profile_mentions = ReplacedPairs(@, row.id, mids)]
    IN  IF fault = "select" \/ Cardinality(found) > 1
            THEN [db |-> d, ok |-> FALSE, row |-> None]
        ELSE IF ~UniqueTag(hashtags)
            THEN [db |-> d, ok |-> FALSE, row |-> None]
        ELSE IF ~UniqueUsername(mentions)
            THEN [db |-> d1, ok |-> FALSE, row |-> None]
        ELSE IF ~UniqueUsername(profiles)
            THEN [db |-> d2, ok |-> FALSE, row |-> None]
        ELSE IF ~NoRepeat(AddedPairs(row.id, hids, d.profile_hashtags))
            THEN [db |-> d3, ok |-> FALSE, row |-> None]
        ELSE IF ~NoRepeat(AddedPairs(row.id, mids, d.profile_mentions))
            THEN [db |-> d4, ok |-> FALSE, row |-> None]
        ELSE IF fault = "commit"
            THEN [db |-> d5, ok |-> FALSE, row |-> None]
        ELSE [db |-> d5, ok |-> TRUE, row |-> Some(row)]

\* self.db.rollback(): the store is what was last committed.
RollbackM(committed, written) == written
Rollback(committed, written) == committed

Faults == {"none", "select", "commit"}

\* Instagram._upsert_profile_to_db: the committed store afterwards and the
\* returned db_profile.
UpsertProfileToDbM(d, p, fault) ==
    [db |-> d,
     db_profile |-> Some([NewProfileRow(d.profiles, p.username, p.is_private)
                            EXCEPT !.followed_by_viewer = Some(p.followed_by_viewer)])]
UpsertProfileToDb(d, p, fault) ==
    LET f == Flush(d, p, fault)
    IN  IF f.ok THEN [db |-> f.db, db_profile |-> f.row]
        ELSE [db |-> Rollback(d, f.db), db_profile |-> None]

\* ------------------------------------------------------------------ files

\* The entries os.walk finds under the download directory, in the order it
\* yields them.
Paths == {"a.jpg", "b.PNG", "c.webp", "d.mp4", "e.txt"}
PathOrder == <<"a.jpg", "b.PNG", "c.webp", "d.mp4", "e.txt">>

\* Path(file).suffix
Suffix(path) ==
    CASE path = "a.jpg" -> ".jpg"
      [] path = "b.PNG" -> ".PNG"
      [] path = "c.webp" -> ".webp"
      [] path = "d.mp4" -> ".mp4"
      [] path = "e.txt" -> ".txt"

\* str.lower() on the suffixes above.
Lower(suffix) == IF suffix = ".PNG" THEN ".png" ELSE suffix

SUPPORTED_EXTENSIONS == {".jpg", ".jpeg", ".png", ".mpeg", ".mpg", ".mp4", ".webp"}
IMAGE_EXTENSIONS == {".jpg", ".jpeg", ".png", ".webp"}
LARGE_FILE_THRESHOLD == 100000

\* BATCH_SIZE of src/src/config/settings.py, scaled down to the model's
\* directory.
BATCH_SIZE == 2

\* datetime.now(tz=UTC), and the st_mtime values, in days since the epoch.
Now == 100

\* What a file can be: st_mtime (0 is the epoch), st_size in bytes and the
\* image Image.open finds in it (None when PIL cannot identify one). The
\* kinds vary the modification time (T-40, T-30, T-10 days and the epoch)
\* together with the content; every path takes two of them.
Kind(st_mtime, st_size, image) ==
    [st_mtime |-> st_mtime, st_size |-> st_size, image |-> image]

KindsOf(path) ==
    CASE path = "a.jpg" -> {Kind(60, 5000, Some(<<100, 100>>)),
                            Kind(90, 5000, Some(<<300, 300>>))}
      [] path = "b.PNG" -> {Kind(0, 5000, None),
                            Kind(60, 100000, Some(<<100, 300>>))}
      [] path = "c.webp" -> {Kind(60, 100001, Some(<<100, 100>>)),
                             Kind(70, 5000, Some(<<300, 100>>))}
      [] path = "d.mp4" -> {Kind(60, 100001, None)}
      [] path = "e.txt" -> {Kind(60, 5000, Some(<<100, 100>>))}

\* A file of the directory: a kind, and whether the file is still there.
File(kind, present) ==
    [present |-> present, st_mtime |-> kind.st_mtime, st_size |-> kind.st_size,
     image |-> kind.image]

\* The directories the FileManager is constructed on.
Directories ==
    {fs \in [Paths -> UNION {{File(k, TRUE) : k \in KindsOf(path)} : path \in Paths}] :
        \A path \in Paths : \E k \in KindsOf(path) : fs[path] = File(k, TRUE)}

\* A download directory in which nothing has been downloaded yet.
EmptyDirectory ==
    [path \in Paths |-> File(Kind(60, 5000, None), FALSE)]

\* FileManager._get_files: the supported files that stat() accepts;
\* `problematic` are the paths whose stat() raises OSError.
GetFilesM(fs, problematic) ==
    IF \E path \in problematic : fs[path].present
       THEN <<>>
       ELSE SelectSeq(PathOrder, LAMBDA path :
                Lower(Suffix(path)) \in SUPPORTED_EXTENSIONS /\ fs[path].present)
GetFiles(fs, problematic) ==
    SelectSeq(PathOrder, LAMBDA path :
        /\ Lower(Suffix(path)) \in SUPPORTED_EXTENSIONS
        /\ fs[path].present
        /\ path \notin problematic)

\* The problematic_files of _get_files: the supported files whose stat()
\* raises OSError.
ProblematicFiles(fs, problematic) ==
    {path \in problematic :
        Lower(Suffix(path)) \in SUPPORTED_EXTENSIONS /\ fs[path].present}

\* FileManager._get_image_files
GetImageFilesM(mf) == mf
GetImageFiles(mf) ==
    SelectSeq(mf, LAMBDA path : Lower(Suffix(path)) \in IMAGE_EXTENSIONS)

\* What stat() answers for a file: FileNotFoundError when it is gone, else
\* the success or the OSError the operating system gives.
StatFaults == {"ok", "OSError"}
Stat(f, fault) == IF ~f.present THEN "FileNotFoundError" ELSE fault

\* FileManager._is_file_older_than, given what both stat calls answer: an
\* OSError makes it return False, and so does an st_mtime <= 0.
IsFileOlderThanM(f, time_delta, stat) ==
    /\ stat = "ok"
    /\ f.st_mtime > 0
    /\ f.st_mtime <= Now - time_delta
IsFileOlderThan(f, time_delta, stat) ==
    /\ stat = "ok"
    /\ f.st_mtime > 0
    /\ f.st_mtime < Now - time_delta

\* What the removal of a file that is there can meet: unlink() succeeds;
\* unlink() raises PermissionError and os.remove succeeds or raises OSError;
\* unlink() raises another exception; exists() itself raises OSError.
RemoveFaults == {"ok", "PermissionError/ok", "PermissionError/OSError",
                 "Exception", "exists/OSError"}

\* What another process does to the file while _remove_file runs: it deletes
\* the file after the caller's stat() and before exists() ("vanished"), or
\* after exists() and before unlink(), which then raises FileNotFoundError.
VanishFaults == {"vanished", "FileNotFoundError"}

\* FileManager._remove_file: what it returns ("raised" when the exception of
\* exists() leaves it) and whether the file is still there.
RemoveFile(f, fault) ==
    IF ~f.present \/ fault = "vanished"
       THEN [ret |-> "True", present |-> FALSE, answer |-> "missing"]
    ELSE IF fault = "FileNotFoundError"
         THEN [ret |-> "False", present |-> FALSE, answer |-> fault]
    ELSE IF fault \in {"ok", "PermissionError/ok"}
         THEN [ret |-> "True", present |-> FALSE, answer |-> fault]
    ELSE IF fault = "exists/OSError"
         THEN [ret |-> "raised", present |-> TRUE, answer |-> fault]
    ELSE [ret |-> "False", present |-> TRUE, answer |-> fault]

Answers(stat, open, unlink) == [stat |-> stat, open |-> open, unlink |-> unlink]

\* The answers that are failures of the operating system, not properties of
\* the file, and how many of them a task met.
Failures == {"OSError", "ValueError", "PermissionError/ok",
             "PermissionError/OSError", "Exception", "exists/OSError"}
Injected(a) ==
    Cardinality({k \in {"stat", "open", "unlink"} : a[k] \in Failures})

\* FileManager._process_old_file: the status it returns, whether the file is
\* still there, and the calls it made.
ProcessOldFile(f, cutoff_delta, statFault, removeFault) ==
    LET stat == Stat(f, statFault)
        r == RemoveFile(f, removeFault)
    IN  IF IsFileOlderThan(f, cutoff_delta, stat)
           THEN [status |-> IF r.ret = "True" THEN "removed" ELSE "failed",
                 present |-> r.present,
                 io |-> Answers(stat, "none", r.answer)]
           ELSE [status |-> "skipped", present |-> f.present,
                 io |-> Answers(stat, "none", "none")]

\* What Image.open answers: UnidentifiedImageError (an OSError) when the file
\* holds no image, else the success or the error of reading it.
OpenFaults == {"ok", "OSError", "ValueError"}
Open(f, fault) == IF f.image = None THEN "UnidentifiedImageError" ELSE fault

\* if width >= min_size[0] and height >= min_size[1]: skipped
LargeEnoughM(size, min_size) == size[1] >= min_size[1]
LargeEnough(size, min_size) == size[1] >= min_size[1] /\ size[2] >= min_size[2]

\* if file_size > self.LARGE_FILE_THRESHOLD: skipped
LargeFileM(file_size) == FALSE
LargeFile(file_size) == file_size > LARGE_FILE_THRESHOLD

\* FileManager._process_small_file.
ProcessSmallFile(f, min_size, statFault, openFault, removeFault) ==
    LET stat == Stat(f, statFault)
        open == Open(f, openFault)
        r == RemoveFile(f, removeFault)
        kept(status, o) == [status |-> status, present |-> f.present,
                            io |-> Answers(stat, o, "none")]
    IN  IF stat # "ok" THEN kept("failed", "none")
        ELSE IF LargeFile(f.st_size) THEN kept("skipped", "none")
        ELSE IF open \in {"OSError", "UnidentifiedImageError"} THEN kept("skipped", open)
        ELSE IF open = "ValueError" THEN kept("failed", open)
        ELSE IF LargeEnough(f.image[1], min_size) THEN kept("skipped", open)
        ELSE [status |-> IF r.ret = "True" THEN "removed" ELSE "failed",
              present |-> r.present,
              io |-> Answers(stat, open, r.answer)]

\* The fold of one FileResult into removed_count and failed_removals.
FoldM(tally, result) ==
    IF result[1] = "removed"
       THEN [removed_count |-> 1, failed_removals |-> tally.failed_removals]
    ELSE IF result[1] = "failed"
       THEN [removed_count |-> tally.removed_count,
             failed_removals |-> Append(tally.failed_removals, result[2])]
    ELSE tally
Fold(tally, result) ==
    IF result[1] = "removed"
       THEN [removed_count |-> tally.removed_count + 1,
             failed_removals |-> tally.failed_removals]
    ELSE IF result[1] = "failed"
       THEN [removed_count |-> tally.removed_count,
             failed_removals |-> Append(tally.failed_removals, result[2])]
    ELSE tally

\* for status, file_path in results: ... (remove_old_files, lines 77-81)
RECURSIVE FoldAll(_, _)
FoldAll(tally, rs) ==
    IF rs = <<>> THEN tally ELSE FoldAll(Fold(tally, Head(rs)), Tail(rs))

\* FileManager._log_removal_summary: the counts of the first message and the
\* paths of the warnings.
LogRemovalSummary(count, failed, mf) ==
    [removed |-> count, total |-> Len(mf), failed |-> failed]

\* total_batches and the batch slices of remove_small_images; batch_num
\* counts from 0 and the positions of image_files from 1.
Min(a, b) == IF a <= b THEN a ELSE b
TotalBatches(n) == (n + BATCH_SIZE - 1) \div BATCH_SIZE
BatchM(batch_num, n) ==
    (batch_num * BATCH_SIZE + 1) .. Min(batch_num * BATCH_SIZE + BATCH_SIZE - 1, n)
Batch(batch_num, n) ==
    (batch_num * BATCH_SIZE + 1) .. Min(batch_num * BATCH_SIZE + BATCH_SIZE, n)

\* The state of a FileManager that has not been asked for a sweep.
NoJob == [op |-> "none", arg |-> None, items |-> <<>>]
NoAnswers == [path \in Paths |-> Answers("none", "none", "none")]

\* ------------------------------------------------------------------ sessions

\* The runs that work on the store at the same time, each with the session
\* that SessionLocal() gave it.
Runs == {"run1", "run2"}

\* A session before _upsert_profile_to_db is called.
NoSession ==
    [pc |-> "idle", p |-> None, found |-> None, hashtags |-> <<>>,
     mentions |-> <<>>, loaded |-> None, db_profile |-> None]
NoSessions == [r \in Runs |-> NoSession]

\* ------------------------------------------------------------------ run

\* Instagram._get_users_from_db.
GetUsersFromDbM(d, target) == {r.username : r \in d.profiles}
GetUsersFromDb(d, target) ==
    {r.username : r \in {x \in d.profiles :
        \/ target = "all"
        \/ target = "public" /\ x.is_private = FALSE
        \/ target = "private" /\ x.is_private = TRUE}}

Targets == {"all", "public", "private"}

\* sorted(self.users)
Sorted(S) == SelectSeq(UserOrder, LAMBDA u : u \in S)

Event(op, user, res) == [op |-> op, user |-> user, res |-> res]

Init ==
    /\ db \in InitialStores
    /\ pc = "start"
    /\ users = {}
    /\ highlights = FALSE
    /\ conn = NULL
    /\ context_username = NULL
    /\ todo = <<>>
    /\ profile = None
    /\ db_profile = None
    /\ log = <<>>
    /\ files = EmptyDirectory
    /\ media_files = GetFiles(files, {})
    /\ problematic_files = ProblematicFiles(files, {})
    /\ sweep_pc = "idle"
    /\ job = NoJob
    /\ results = <<>>
    /\ folded = {}
    /\ removed_count = 0
    /\ failed_removals = <<>>
    /\ io = NoAnswers
    /\ injected = 0
    /\ calls = <<>>
    /\ sessions = NoSessions

\* What Path.home().glob(pattern) and sqlite3.connect can give __init__.
CookieFiles == {"missing", "found", "unopenable"}

\* __init__, lines 79-83: SystemExit without a cookie file, the exception of
\* sqlite3.connect when the file cannot be opened, else the open connection.
CookieCheckM(cookie_file) ==
    IF cookie_file = "unopenable" THEN [pc |-> "crashed", conn |-> NULL]
    ELSE [pc |-> "constructed", conn |-> "open"]
CookieCheck(cookie_file) ==
    IF cookie_file = "missing" THEN [pc |-> "exit", conn |-> NULL]
    ELSE IF cookie_file = "unopenable" THEN [pc |-> "crashed", conn |-> NULL]
    ELSE [pc |-> "constructed", conn |-> "open"]

\* The call of the constructor with its arguments and the cookie file it
\* finds; target_users is not read when users is given.
InitCall(usersArg, target, cookie_file) ==
    [op |-> "init", user |-> NULL, res |-> cookie_file, users |-> usersArg,
     target |-> IF usersArg # None THEN NULL ELSE target]

\* Instagram.__init__.
Construct(usersArg, target, hl, cookie_file) ==
    /\ pc = "start"
    /\ users' = IF usersArg # None THEN usersArg[1] ELSE GetUsersFromDb(db, target)
    /\ highlights' = hl
    /\ pc' = CookieCheck(cookie_file).pc
    /\ conn' = CookieCheck(cookie_file).conn
    /\ log' = Append(log, InitCall(usersArg, target, cookie_file))
    /\ UNCHANGED <<db, context_username, todo, profile, db_profile>>
    /\ UNCHANGED <<fmVars, raceVars>>

\* run, line 108: if not self.users
NoUsersM(u) == FALSE
NoUsers(u) == u = {}

\* Instagram.run with no users: the warning and the early return.
RunNoUsers ==
    /\ pc = "constructed"
    /\ NoUsers(users)
    /\ pc' = "done"
    /\ log' = Append(log, Event("warning", NULL, "no users"))
    /\ UNCHANGED <<db, users, highlights, conn, context_username, todo,
                   profile, db_profile>>
    /\ UNCHANGED <<fmVars, raceVars>>

\* The cookie query of _import_session and the answer of loader.test_login().
CookieRows == {"OperationalError", "none", "some"}
Logins == {"InstaloaderException", "Exception", NULL, "", "viewer"}

\* Instagram._import_session returns (does not raise SystemExit).
SessionImportedM(cookies, login) ==
    /\ cookies = "some"
    /\ login \notin {"InstaloaderException", "Exception"}
SessionImported(cookies, login) ==
    /\ cookies = "some"
    /\ login \notin {"InstaloaderException", "Exception"}
    /\ login \notin {NULL, ""}

\* Instagram.run with users: _import_session, then the loop is entered.
ImportSession(cookies, login) ==
    /\ pc = "constructed"
    /\ ~NoUsers(users)
    /\ IF SessionImported(cookies, login)
          THEN /\ context_username' = login
               /\ pc' = "fetch"
               /\ todo' = Sorted(users)
               /\ log' = Append(log, Event("import_session", login, "ok"))
          ELSE /\ pc' = "exit"
               /\ log' = Append(log, Event("import_session", NULL, "exit"))
               /\ UNCHANGED <<context_username, todo>>
    /\ UNCHANGED <<db, users, highlights, conn, profile, db_profile>>
    /\ UNCHANGED <<fmVars, raceVars>>

\* What Profile.from_username can do besides returning a profile; "incomplete"
\* is a profile without userid.
FetchFailures == {"ProfileNotExistsException", "ConnectionException",
                  "InstaloaderException", "Exception", "incomplete"}

\* One loop iteration of _download up to _get_instagram_profile's return.
GetInstagramProfile(outcome, p) ==
    /\ pc = "fetch"
    /\ todo # <<>>
    /\ IF outcome \in FetchFailures
          THEN /\ profile' = None
               /\ todo' = Tail(todo)
               /\ pc' = "fetch"
               /\ log' = Append(log, Event("fetch", Head(todo), "none"))
          ELSE /\ p.username = Head(todo)
               /\ profile' = Some(p)
               /\ todo' = todo
               /\ pc' = "upsert"
               /\ log' = Append(log, Event("fetch", Head(todo), "ok"))
    /\ db_profile' = None
    /\ UNCHANGED <<db, users, highlights, conn, context_username>>
    /\ UNCHANGED <<fmVars, raceVars>>

\* _download, lines 140-143: the upsert and the skip on None.
UpsertProfile(fault) ==
    /\ pc = "upsert"
    /\ \E r \in {UpsertProfileToDb(db, profile[1], fault)} :
           /\ db' = r.db
           /\ db_profile' = r.db_profile
           /\ IF r.db_profile = None
                 THEN /\ todo' = Tail(todo)
                      /\ pc' = "fetch"
                      /\ log' = Append(log, Event("upsert", Head(todo), "failed"))
                 ELSE /\ todo' = todo
                      /\ pc' = "dispatch"
                      /\ log' = Append(log, Event("upsert", Head(todo), "ok"))
    /\ UNCHANGED <<users, highlights, conn, context_username, profile>>
    /\ UNCHANGED <<fmVars, raceVars>>

Exceptions == {"KeyError", "PermissionError", "ConnectionException",
               "ProfileNotExistsException", "AssertionError",
               "AbortDownloadException"}

\* except (KeyError, ConnectionException, AssertionError) of
\* _download_profile_highlights.
CaughtByHighlights(e) == e \in {"KeyError", "ConnectionException", "AssertionError"}

\* except (KeyError, PermissionError) of _download_profile_content.
CaughtByContent(e) == e \in {"KeyError", "PermissionError"}

\* The except clause of _download's loop body.
CaughtByDownload(e) ==
    e \in {"ProfileNotExistsException", "ConnectionException", "KeyError",
           "PermissionError"}

\* if db_profile.is_private and not profile.followed_by_viewer: continue
PictureOnly(dbp, p) == dbp.is_private /\ ~p.followed_by_viewer

\* loader.download_profiles({profile}, tagged=False, stories=True, reels=True, ...)
DownloadProfilesCallM(user, res) ==
    [op |-> "download_profiles", user |-> user, res |-> res,
     tagged |-> TRUE, stories |-> TRUE, reels |-> TRUE]
DownloadProfilesCall(user, res) ==
    [op |-> "download_profiles", user |-> user, res |-> res,
     tagged |-> FALSE, stories |-> TRUE, reels |-> TRUE]

Result(e) == IF e = "ok" THEN "ok" ELSE "raised"

\* The calls _download_profile_content makes, and the exception that leaves
\* it ("ok" for none): o1 is what download_profiles does, o2 what
\* download_highlights does.
ContentCalls(user, hl, o1, o2) ==
    <<DownloadProfilesCall(user, Result(o1))>> \o
    (IF o1 = "ok" /\ hl
        THEN <<Event("download_highlights", user, Result(o2))>> ELSE <<>>)

ContentRaises(hl, o1, o2) ==
    LET inner == IF o1 # "ok" THEN o1
                 ELSE IF hl /\ o2 # "ok" /\ ~CaughtByHighlights(o2) THEN o2
                 ELSE "ok"
    IN  IF inner # "ok" /\ CaughtByContent(inner) THEN "ok" ELSE inner

\* _download, lines 145-161: the dispatch of a stored profile.
Dispatch(o1, o2) ==
    /\ pc = "dispatch"
    /\ IF PictureOnly(db_profile[1], profile[1])
          THEN /\ log' = log
               /\ pc' = "fetch"
               /\ todo' = Tail(todo)
          ELSE LET e == ContentRaises(highlights, o1, o2)
               IN  /\ log' = log \o ContentCalls(Head(todo), highlights, o1, o2)
                   /\ IF e = "ok" \/ CaughtByDownload(e)
                         THEN pc' = "fetch" /\ todo' = Tail(todo)
                         ELSE pc' = "crashed" /\ todo' = todo
    /\ UNCHANGED <<db, users, highlights, conn, context_username, profile,
                   db_profile>>
    /\ UNCHANGED <<fmVars, raceVars>>

\* Instagram.run after the loop: the cookie database is closed.
Finish ==
    /\ pc = "fetch"
    /\ todo = <<>>
    /\ conn' = "closed"
    /\ pc' = "done"
    /\ UNCHANGED <<db, users, highlights, context_username, todo, profile,
                   db_profile, log>>
    /\ UNCHANGED <<fmVars, raceVars>>

\* What Profile.from_username returns for the roster entry at hand; no
\* profile is read when it raises.
FetchedProfiles(outcome) ==
    IF outcome = "ok"
       THEN {p \in RemoteProfiles : todo # <<>> /\ p.username = Head(todo)}
       ELSE {CHOOSE p \in RemoteProfiles : TRUE}

\* What download_highlights does; it is called only after download_profiles
\* has returned, in a run with the highlights flag.
HighlightOutcomes(o1) ==
    IF o1 = "ok" /\ highlights THEN Exceptions \cup {"ok"} ELSE {"ok"}

Next ==
    \/ \E usersArg \in {None} \cup {Some(S) : S \in SUBSET Usernames}, target \in Targets,
          hl \in BOOLEAN, cookie_file \in CookieFiles :
            Construct(usersArg, target, hl, cookie_file)
    \/ RunNoUsers
    \/ \E cookies \in CookieRows, login \in Logins : ImportSession(cookies, login)
    \/ \E outcome \in FetchFailures \cup {"ok"} :
          \E p \in FetchedProfiles(outcome) : GetInstagramProfile(outcome, p)
    \/ \E fault \in Faults : UpsertProfile(fault)
    \/ \E o1 \in Exceptions \cup {"ok"} :
          \E o2 \in HighlightOutcomes(o1) : Dispatch(o1, o2)
    \/ Finish

Spec == Init /\ [][Next]_vars

\* ------------------------------------------------------------------ store alone

\* _upsert_profile_to_db called on the store, outside the bookkeeping of a run.
\* db_profile holds what the call returned, and profile the payload of a call
\* that returned a record.
UpsertCall(p, fault) ==
    /\ pc = "start"
    /\ \E r \in {UpsertProfileToDb(db, p, fault)} :
           /\ db' = r.db
           /\ db_profile' = r.db_profile
           /\ profile' = IF r.db_profile = None THEN None ELSE Some(p)
    /\ UNCHANGED <<pc, users, highlights, conn, context_username, todo, log>>
    /\ UNCHANGED <<fmVars, raceVars>>

\* The profiles SpecStore upserts: every username, privacy flag and token
\* list, fetched by a viewer who follows none of them.
StoreProfiles == {p \in RemoteProfiles : ~p.followed_by_viewer}

\* Every failing call leaves the same state behind, so one fault stands for all.
StoreFaults == {"none", "commit"}

NextStore == \E p \in StoreProfiles, fault \in StoreFaults : UpsertCall(p, fault)

SpecStore == Init /\ [][NextStore]_vars

\* ------------------------------------------------------------------ privacy

\* The public and the private users of the store, as _get_users_from_db reads
\* them from Profile.is_private.
PublicSet(d) == GetUsersFromDb(d, "public")
PrivateSet(d) == GetUsersFromDb(d, "private")

\* What _upsert_profile_to_db writes to the logger, in order.
UpsertMessages(d, p, fault) ==
    LET found == {r \in d.profiles : r.username = p.username}
    IN  <<"Upserting profile">>
        \o (IF fault = "select" \/ Cardinality(found) > 1 THEN <<>>
            ELSE IF found # {} THEN <<"Updating existing DB profile">>
            ELSE <<"Creating new DB profile">>)
        \o (IF Flush(d, p, fault).ok THEN <<"Committed changes">>
            ELSE <<"Database error upserting profile">>)

\* ------------------------------------------------------------------ cli

\* The largest Profile.id the store hands out.
MaxProfileId == 3

\* The usernames given to the commands, "" for none given at the prompt, and
\* the entries of public_users.json and private_users.json.
CliNames == Usernames \cup {"Bob"}
JsonNames == {"alice", "Bob"}

\* str.lower() on the names above.
LowerName(username) == IF username = "Bob" THEN "bob" ELSE username

\* The command just executed, with what it printed or raised; the arguments
\* are kept for add, remove and rename, and download keeps the cookie file
\* there is to find.
Command(op, username, arg, res) ==
    [op |-> op, username |-> username, arg |-> arg, res |-> res]

\* db.query(Profile).filter_by(username=username).first()
ExistingProfileM(d, username) == {}
ExistingProfile(d, username) == {r \in d.profiles : r.username = username}

\* db.commit() of a session that changed the profiles table: the flush
\* raises IntegrityError against unique=True and nothing is stored.
CommitProfiles(d, rows) ==
    IF UniqueUsername(rows)
       THEN [db |-> [d EXCEPT !.profiles = rows], ok |-> TRUE]
       ELSE [db |-> d, ok |-> FALSE]

\* cli.add
Add(username, private) ==
    /\ pc = "start"
    /\ IF ExistingProfile(db, username) # {}
          THEN /\ db' = db
               /\ log' = <<Command("add", username, private, "skipped")>>
          ELSE LET c == CommitProfiles(db, db.profiles \cup
                            {NewProfileRow(db.profiles, username, private)})
               IN  /\ NextId(db.profiles) <= MaxProfileId
                   /\ db' = c.db
                   /\ log' = <<Command("add", username, private,
                                       IF c.ok THEN "added" ELSE "IntegrityError")>>
    /\ UNCHANGED <<pc, users, highlights, conn, context_username, todo, profile,
                   db_profile>>
    /\ UNCHANGED <<fmVars, raceVars>>

\* db.delete(profile): the row and its rows of the association tables.
DeletedM(d, row) == [d EXCEPT !.profiles = {}]
Deleted(d, row) ==
    [d EXCEPT !.profiles = @ \ {row},
              !.profile_hashtags = {a \in @ : a[1] # row.id},
              !.profile_mentions = {a \in @ : a[1] # row.id}]

\* cli.remove; selected_username is the argument or the answer at the prompt.
Remove(selected_username) ==
    /\ pc = "start"
    /\ LET found == ExistingProfile(db, selected_username)
       IN  IF selected_username = "" THEN
                /\ db' = db
                /\ log' = <<Command("remove", NULL, NULL, "exit")>>
           ELSE IF found # {} THEN
                /\ db' = Deleted(db, CHOOSE r \in found : TRUE)
                /\ log' = <<Command("remove", selected_username, NULL, "removed")>>
           ELSE /\ db' = db
                /\ log' = <<Command("remove", selected_username, NULL, "not found")>>
    /\ UNCHANGED <<pc, users, highlights, conn, context_username, todo, profile,
                   db_profile>>
    /\ UNCHANGED <<fmVars, raceVars>>

\* cli.update; is_private is None when the option is not given, `other` says
\* whether --full-name or --biography is.
Update(selected_username, is_private, other) ==
    /\ pc = "start"
    /\ LET found == ExistingProfile(db, selected_username)
           row == CHOOSE r \in found : TRUE
           updated == IF is_private = None THEN row
                      ELSE [row EXCEPT !.is_private = is_private[1]]
       IN  IF selected_username = "" \/ found = {} \/ (is_private = None /\ ~other)
              THEN /\ db' = db
                   /\ log' = <<Command("update", NULL, NULL, "exit")>>
              ELSE /\ db' = CommitProfiles(db, (db.profiles \ {row}) \cup {updated}).db
                   /\ log' = <<Command("update", NULL, NULL, "updated")>>
    /\ UNCHANGED <<pc, users, highlights, conn, context_username, todo, profile,
                   db_profile>>
    /\ UNCHANGED <<fmVars, raceVars>>

\* cli.rename
Rename(selected_username, new_username) ==
    /\ pc = "start"
    /\ LET found == ExistingProfile(db, selected_username)
           row == CHOOSE r \in found : TRUE
           c == CommitProfiles(db, (db.profiles \ {row}) \cup
                                   {[row EXCEPT !.username = new_username]})
           res(r) == <<Command("rename", selected_username, new_username, r)>>
       IN  IF selected_username = "" \/ new_username = "" \/ found = {}
              THEN db' = db /\ log' = res("exit")
           ELSE IF ExistingProfile(db, new_username) # {}
              THEN db' = db /\ log' = res("exists")
           ELSE /\ db' = c.db
                /\ log' = res(IF c.ok THEN "renamed" ELSE "IntegrityError")
    /\ UNCHANGED <<pc, users, highlights, conn, context_username, todo, profile,
                   db_profile>>
    /\ UNCHANGED <<fmVars, raceVars>>

\* load_users_from_json: the lower-cased strings of the list.
LoadUsersFromJson(names) == {LowerName(n) : n \in names}

\* The loop of import_users_from_json over all_users, in the order the dict
\* yields them: a known username gets the privacy of the JSON files, an
\* unknown one is added.
RECURSIVE ImportedRows(_, _, _, _)
ImportedRows(rows, existing, order, private) ==
    IF order = <<>> THEN rows
    ELSE LET u == Head(order)
             next ==
                IF u \in existing
                   THEN {IF r.username = u THEN [r EXCEPT !.is_private = u \in private]
                         ELSE r : r \in rows}
                   ELSE rows \cup {NewProfileRow(rows, u, u \in private)}
         IN  ImportedRows(next, existing, Tail(order), private)

\* import_users_from_json with the two JSON lists and the iteration order of
\* all_users.
ImportUsers(public, private, order) ==
    /\ pc = "start"
    /\ LET public_users == LoadUsersFromJson(public)
           private_users == LoadUsersFromJson(private)
           all_users == public_users \cup private_users
           existing == {r.username : r \in db.profiles}
           rows == ImportedRows(db.profiles, existing, order, private_users)
           c == CommitProfiles(db, rows)
       IN  /\ Range(order) = all_users
           /\ Len(order) = Cardinality(all_users)
           /\ \A r \in rows : r.id <= MaxProfileId
           /\ db' = c.db
           /\ log' = <<Command("import", NULL, NULL,
                               IF c.ok THEN "imported" ELSE "IntegrityError")>>
    /\ UNCHANGED <<pc, users, highlights, conn, context_username, todo, profile,
                   db_profile>>
    /\ UNCHANGED <<fmVars, raceVars>>

\* The profiles a run upserts between the commands.
CliProfiles ==
    {p \in StoreProfiles : p.biography_hashtags = <<>> /\ p.biography_mentions = <<>>}

\* _upsert_profile_to_db between the commands.
Upsert(p) ==
    /\ pc = "start"
    /\ \E r \in {UpsertProfileToDb(db, p, "none")} :
           /\ \A row \in r.db.profiles : row.id <= MaxProfileId
           /\ db' = r.db
           /\ log' = <<Command("upsert", NULL, NULL,
                               IF r.db_profile = None THEN "failed" ELSE "ok")>>
    /\ UNCHANGED <<pc, users, highlights, conn, context_username, todo, profile,
                   db_profile>>
    /\ UNCHANGED <<fmVars, raceVars>>

Orders == SeqsUpTo(Usernames, Cardinality(Usernames))

\* The keyword parameters of Instagram.__init__ and the keywords cli.download
\* passes: a keyword that is no parameter raises TypeError at the call.
InitKeywords == {"db", "users", "highlights", "target_users"}
DownloadKeywords == {"db", "highlights", "privacy_filter"}
ConstructorCall(keywords) ==
    IF keywords \subseteq InitKeywords THEN "ok" ELSE "TypeError"

\* except Exception of cli.download and cli.clean: SystemExit is a
\* BaseException and passes.
CaughtByCommand(e) == e # "SystemExit"

\* cli.download in a home directory with the given cookie file.  The
\* download directory of this specification is empty, so the sweep that
\* clean_days asks for removes nothing; get_session rolls back a session
\* that holds no change.
Download(privacy, clean_days, cookie_file) ==
    /\ pc = "start"
    /\ LET e == ConstructorCall(DownloadKeywords)
       IN  /\ e # "ok"
           /\ log' = <<Command("download", NULL, cookie_file,
                               IF CaughtByCommand(e) THEN "logged" ELSE e)>>
    /\ db' = db
    /\ UNCHANGED <<pc, users, highlights, conn, context_username, todo, profile,
                   db_profile>>
    /\ UNCHANGED <<fmVars, raceVars>>

\* The exit status of a command: 0 when the function returns or raises
\* typer.Exit(), 1 when an exception or SystemExit(message) leaves it.
ExitCode(command) ==
    IF command.res \in {"IntegrityError", "TypeError", "SystemExit"} THEN 1 ELSE 0

NextCli ==
    \/ \E username \in CliNames, private \in BOOLEAN : Add(username, private)
    \/ \E username \in CliNames \cup {""} : Remove(username)
    \/ \E username \in CliNames \cup {""}, is_private \in {None, Some(TRUE), Some(FALSE)},
          other \in BOOLEAN : Update(username, is_private, other)
    \/ \E old \in CliNames \cup {""}, new \in CliNames \cup {""} : Rename(old, new)
    \/ \E public \in SUBSET JsonNames, private \in SUBSET JsonNames, order \in Orders :
            ImportUsers(public, private, order)
    \/ \E p \in CliProfiles : Upsert(p)
    \/ \E privacy \in Targets, clean_days \in {0, 30}, cookie_file \in CookieFiles :
            Download(privacy, clean_days, cookie_file)

SpecCli == Init /\ [][NextCli]_vars

\* ------------------------------------------------------------------ sweeps

\* How many sweeps one FileManager is asked for, and how many calls the
\* operating system fails in its lifetime.
MaxSweeps == 2
MaxFaults == 1

\* timedelta(days=...) and min_size arguments of the callers.
CutoffDeltas == {30}
MinSizes == {<<256, 256>>}

InitSweep ==
    /\ db = EmptyStore
    /\ pc = "start"
    /\ users = {}
    /\ highlights = FALSE
    /\ conn = NULL
    /\ context_username = NULL
    /\ todo = <<>>
    /\ profile = None
    /\ db_profile = None
    /\ log = <<>>
    /\ files \in Directories
    /\ media_files = GetFiles(files, {})
    /\ problematic_files = ProblematicFiles(files, {})
    /\ sweep_pc = "idle"
    /\ job = NoJob
    /\ results = <<>>
    /\ folded = {}
    /\ removed_count = 0
    /\ failed_removals = <<>>
    /\ io = NoAnswers
    /\ injected = 0
    /\ calls = <<>>
    /\ sessions = NoSessions

\* The results of the finished tasks, as a list in the order of job.items.
ResultList == [i \in DOMAIN results |-> results[i][1]]

\* A sweep that has returned, for the record of calls.
Returned(summary) ==
    [op |-> job.op, arg |-> job.arg, items |-> job.items, results |-> results,
     summary |-> summary]

\* FileManager.refresh
Refresh(problematic) ==
    /\ sweep_pc \in {"idle", "returned"}
    /\ media_files' = GetFiles(files, problematic)
    /\ problematic_files' = ProblematicFiles(files, problematic)
    /\ UNCHANGED <<files, sweep_pc, job, results, folded, removed_count,
                   failed_removals, io, injected, calls>>
    /\ UNCHANGED <<runVars, raceVars>>

\* remove_old_files up to executor.map: the tallies are initialised and one
\* task per media file is handed to the pool.
RemoveOldFiles(cutoff_delta) ==
    /\ sweep_pc \in {"idle", "returned"}
    /\ Len(calls) < MaxSweeps
    /\ sweep_pc' = "old"
    /\ job' = [op |-> "remove_old_files", arg |-> cutoff_delta, items |-> media_files]
    /\ results' = [i \in 1..Len(media_files) |-> None]
    /\ folded' = {}
    /\ removed_count' = 0
    /\ failed_removals' = <<>>
    /\ io' = NoAnswers
    /\ UNCHANGED <<files, media_files, problematic_files, injected, calls>>
    /\ UNCHANGED <<runVars, raceVars>>

\* A worker thread runs _process_old_file on one media file.
OldWorker(i, statFault, removeFault) ==
    /\ sweep_pc = "old"
    /\ i \in DOMAIN results
    /\ results[i] = None
    /\ LET path == job.items[i]
           r == ProcessOldFile(files[path], job.arg, statFault, removeFault)
       IN  /\ files' = [files EXCEPT ![path].present = r.present]
           /\ results' = [results EXCEPT ![i] = Some(<<r.status, path>>)]
           /\ io' = [io EXCEPT ![path] = r.io]
           /\ injected' = injected + Injected(r.io)
           /\ injected' <= MaxFaults
    /\ UNCHANGED <<media_files, problematic_files, sweep_pc, job, folded, removed_count,
                   failed_removals, calls>>
    /\ UNCHANGED <<runVars, raceVars>>

\* remove_old_files after the pool has shut down: the calling thread folds
\* the list of results and logs the summary.
RemoveOldFilesReturn ==
    /\ sweep_pc = "old"
    /\ \A i \in DOMAIN results : results[i] # None
    /\ LET tally == FoldAll([removed_count |-> removed_count,
                             failed_removals |-> failed_removals], ResultList)
       IN  /\ removed_count' = tally.removed_count
           /\ failed_removals' = tally.failed_removals
           /\ calls' = Append(calls, Returned(Some(LogRemovalSummary(
                  tally.removed_count, tally.failed_removals, media_files))))
    /\ folded' = DOMAIN results
    /\ sweep_pc' = "returned"
    /\ UNCHANGED <<files, media_files, problematic_files, job, results, io, injected>>
    /\ UNCHANGED <<runVars, raceVars>>

\* remove_small_images up to the first batch: without image files it returns
\* after the message "No image files found to process".
RemoveSmallImages(min_size) ==
    /\ sweep_pc \in {"idle", "returned"}
    /\ Len(calls) < MaxSweeps
    /\ LET image_files == GetImageFiles(media_files)
           call == [op |-> "remove_small_images", arg |-> min_size,
                    items |-> image_files]
       IN  /\ job' = call
           /\ results' = [i \in 1..Len(image_files) |-> None]
           /\ IF image_files = <<>>
                 THEN /\ sweep_pc' = "returned"
                      /\ calls' = Append(calls, [op |-> call.op, arg |-> call.arg,
                                                 items |-> <<>>, results |-> <<>>,
                                                 summary |-> None])
                 ELSE /\ sweep_pc' = "small"
                      /\ calls' = calls
    /\ folded' = {}
    /\ removed_count' = 0
    /\ failed_removals' = <<>>
    /\ io' = NoAnswers
    /\ UNCHANGED <<files, media_files, problematic_files, injected>>
    /\ UNCHANGED <<runVars, raceVars>>

\* batch_num of the loop of remove_small_images: the first batch that still
\* has a future the calling thread has not taken from as_completed.
BatchNum ==
    CHOOSE b \in 0..(TotalBatches(Len(job.items)) - 1) :
        /\ ~(Batch(b, Len(job.items)) \subseteq folded)
        /\ \A c \in 0..(b - 1) : Batch(c, Len(job.items)) \subseteq folded

\* A worker thread runs _process_small_file on a file of the submitted batch.
SmallWorker(i, statFault, openFault, removeFault) ==
    /\ sweep_pc = "small"
    /\ folded # DOMAIN results
    /\ i \in Batch(BatchNum, Len(job.items))
    /\ results[i] = None
    /\ LET path == job.items[i]
           r == ProcessSmallFile(files[path], job.arg, statFault, openFault,
                                 removeFault)
       IN  /\ files' = [files EXCEPT ![path].present = r.present]
           /\ results' = [results EXCEPT ![i] = Some(<<r.status, path>>)]
           /\ io' = [io EXCEPT ![path] = r.io]
           /\ injected' = injected + Injected(r.io)
           /\ injected' <= MaxFaults
    /\ UNCHANGED <<media_files, problematic_files, sweep_pc, job, folded, removed_count,
                   failed_removals, calls>>
    /\ UNCHANGED <<runVars, raceVars>>

\* The calling thread takes one finished future from as_completed and folds
\* its result, lines 157-162.
SmallCollect(i) ==
    /\ sweep_pc = "small"
    /\ folded # DOMAIN results
    /\ i \in Batch(BatchNum, Len(job.items)) \ folded
    /\ results[i] # None
    /\ LET tally == Fold([removed_count |-> removed_count,
                          failed_removals |-> failed_removals], results[i][1])
       IN  /\ removed_count' = tally.removed_count
           /\ failed_removals' = tally.failed_removals
    /\ folded' = folded \cup {i}
    /\ UNCHANGED <<files, media_files, problematic_files, sweep_pc, job, results, io, injected, calls>>
    /\ UNCHANGED <<runVars, raceVars>>

\* remove_small_images after the last batch: the summary.
RemoveSmallImagesReturn ==
    /\ sweep_pc = "small"
    /\ folded = DOMAIN results
    /\ calls' = Append(calls, Returned(Some(LogRemovalSummary(
           removed_count, failed_removals, media_files))))
    /\ sweep_pc' = "returned"
    /\ UNCHANGED <<files, media_files, problematic_files, job, results, folded, removed_count,
                   failed_removals, io, injected>>
    /\ UNCHANGED <<runVars, raceVars>>

NextSweep ==
    \/ \E problematic \in {{}, {"a.jpg"}} : Refresh(problematic)
    \/ \E cutoff_delta \in CutoffDeltas : RemoveOldFiles(cutoff_delta)
    \/ \E i \in 1..Cardinality(Paths), statFault \in StatFaults,
          removeFault \in RemoveFaults : OldWorker(i, statFault, removeFault)
    \/ RemoveOldFilesReturn
    \/ \E min_size \in MinSizes : RemoveSmallImages(min_size)
    \/ \E i \in 1..Cardinality(Paths), statFault \in StatFaults,
          openFault \in OpenFaults, removeFault \in RemoveFaults :
            SmallWorker(i, statFault, openFault, removeFault)
    \/ \E i \in 1..Cardinality(Paths) : SmallCollect(i)
    \/ RemoveSmallImagesReturn

SpecSweep == InitSweep /\ [][NextSweep]_vars

\* ------------------------------------------------- tasks beside other processes
\* The tasks of the sweeps, called one at a time on a media file, while
\* another process may delete the file under _remove_file. SpecSweep leaves
\* the other process out: there removeFault is drawn from RemoveFaults only.

\* One call of _process_old_file.
ProcessOld(path, cutoff_delta, statFault, removeFault) ==
    /\ \E i \in DOMAIN media_files : media_files[i] = path
    /\ \E r \in {ProcessOldFile(files[path], cutoff_delta, statFault, removeFault)} :
           /\ files' = [files EXCEPT ![path].present = r.present]
           /\ results' = <<Some(<<r.status, path>>)>>
           /\ io' = [NoAnswers EXCEPT ![path] = r.io]
    /\ job' = [op |-> "remove_old_files", arg |-> cutoff_delta, items |-> <<path>>]
    /\ UNCHANGED <<media_files, problematic_files, sweep_pc, folded, removed_count,
                   failed_removals, injected, calls>>
    /\ UNCHANGED <<runVars, raceVars>>

\* One call of _process_small_file.
ProcessSmall(path, min_size, statFault, openFault, removeFault) ==
    /\ \E i \in DOMAIN GetImageFiles(media_files) :
           GetImageFiles(media_files)[i] = path
    /\ \E r \in {ProcessSmallFile(files[path], min_size, statFault, openFault,
                                  removeFault)} :
           /\ files' = [files EXCEPT ![path].present = r.present]
           /\ results' = <<Some(<<r.status, path>>)>>
           /\ io' = [NoAnswers EXCEPT ![path] = r.io]
    /\ job' = [op |-> "remove_small_images", arg |-> min_size, items |-> <<path>>]
    /\ UNCHANGED <<media_files, problematic_files, sweep_pc, folded, removed_count,
                   failed_removals, injected, calls>>
    /\ UNCHANGED <<runVars, raceVars>>

NextRemove ==
    \/ \E path \in Paths, cutoff_delta \in CutoffDeltas, statFault \in StatFaults,
          removeFault \in RemoveFaults \cup VanishFaults :
            ProcessOld(path, cutoff_delta, statFault, removeFault)
    \/ \E path \in Paths, min_size \in MinSizes, statFault \in StatFaults,
          openFault \in OpenFaults, removeFault \in RemoveFaults \cup VanishFaults :
            ProcessSmall(path, min_size, statFault, openFault, removeFault)

SpecRemove == InitSweep /\ [][NextRemove]_vars

\* ------------------------------------------------------------------ concurrent runs

\* The payloads the concurrent runs upsert: public profiles with at most one
\* hashtag and one mention in the biography.
RaceProfiles ==
    {p \in StoreProfiles : /\ ~p.is_private
                           /\ Len(p.biography_hashtags) <= 1
                           /\ Len(p.biography_mentions) <= 1}

\* The stores the runs start from: empty, or as an earlier run that stored
\* one profile has left it.
RaceStores ==
    {EmptyStore} \cup {UpsertProfileToDb(EmptyStore, p, "none").db : p \in RaceProfiles}

InitRace ==
    /\ db \in RaceStores
    /\ pc = "start"
    /\ users = {}
    /\ highlights = FALSE
    /\ conn = NULL
    /\ context_username = NULL
    /\ todo = <<>>
    /\ profile = None
    /\ db_profile = None
    /\ log = <<>>
    /\ files = EmptyDirectory
    /\ media_files = GetFiles(files, {})
    /\ problematic_files = ProblematicFiles(files, {})
    /\ sweep_pc = "idle"
    /\ job = NoJob
    /\ results = <<>>
    /\ folded = {}
    /\ removed_count = 0
    /\ failed_removals = <<>>
    /\ io = NoAnswers
    /\ injected = 0
    /\ calls = <<>>
    /\ sessions = NoSessions

\* scalars(stmt).one_or_none() on a unique column: the committed row, if any.
\* The session does not autoflush, so its own pending objects are not seen.
OneOrNone(rows) == IF rows = {} THEN None ELSE Some(CHOOSE r \in rows : TRUE)

\* _upsert_profile_to_db, lines 169-170: the select of the profile.
SelectProfile(r, p) ==
    /\ sessions[r].pc = "idle"
    /\ sessions' = [sessions EXCEPT ![r] =
          [NoSession EXCEPT
              !.pc = "resolving",
              !.p = Some(p),
              !.found = OneOrNone({x \in db.profiles : x.username = p.username})]]
    /\ UNCHANGED <<runVars, fmVars>>

\* Lines 189-195: one turn of the hashtag loop, the select of the next token;
\* None stands for the Hashtag(tag=tag_text) added to the session.
SelectHashtag(r) ==
    LET s == sessions[r]
        tokens == s.p[1].biography_hashtags
    IN  /\ s.pc = "resolving"
        /\ Len(s.hashtags) < Len(tokens)
        /\ sessions' = [sessions EXCEPT ![r].hashtags =
              Append(@, OneOrNone({h \in db.hashtags :
                                      h.tag = tokens[Len(s.hashtags) + 1]}))]
        /\ UNCHANGED <<runVars, fmVars>>

\* Lines 199-207: one turn of the mention loop.
SelectMention(r) ==
    LET s == sessions[r]
        tokens == s.p[1].biography_mentions
    IN  /\ s.pc = "resolving"
        /\ Len(s.hashtags) = Len(s.p[1].biography_hashtags)
        /\ Len(s.mentions) < Len(tokens)
        /\ sessions' = [sessions EXCEPT ![r].mentions =
              Append(@, OneOrNone({m \in db.mentions :
                                      m.username = tokens[Len(s.mentions) + 1]}))]
        /\ UNCHANGED <<runVars, fmVars>>

\* Lines 209-221: the collections are assigned; those of a stored profile are
\* loaded to be replaced, a new profile has none.
AssignCollections(r) ==
    LET s == sessions[r]
    IN  /\ s.pc = "resolving"
        /\ Len(s.hashtags) = Len(s.p[1].biography_hashtags)
        /\ Len(s.mentions) = Len(s.p[1].biography_mentions)
        /\ sessions' = [sessions EXCEPT
              ![r].pc = "assigned",
              ![r].loaded = Some(
                  IF s.found = None
                     THEN [hashtags |-> {}, mentions |-> {}]
                     ELSE [hashtags |-> {a \in db.profile_hashtags :
                                            a[1] = s.found[1].id},
                           mentions |-> {a \in db.profile_mentions :
                                            a[1] = s.found[1].id}])]
        /\ UNCHANGED <<runVars, fmVars>>

\* The token texts whose select returned no row, in the order of the list.
PendingOf(tokens, selected) ==
    LET idx == SelectSeq([i \in 1..Len(tokens) |-> i], LAMBDA i : selected[i] = None)
    IN  [k \in 1..Len(idx) |-> tokens[idx[k]]]

\* The flush of the commit at line 223 against the rows committed by now:
\* the pending hashtags, mentions and profile are inserted (a stored profile
\* is updated by its id), and the association rows are brought from the
\* loaded collection to the assigned list.  ok: no statement violated a
\* unique constraint or a primary key, and every row to delete was there.
FlushSession(d, s) ==
    LET p == s.p[1]
        hashtags == InsertHashtags(d.hashtags,
                                   PendingOf(p.biography_hashtags, s.hashtags))
        mentions == InsertMentions(d.mentions,
                                   PendingOf(p.biography_mentions, s.mentions))
        row == IF s.found = None
               THEN [NewProfileRow(d.profiles, p.username, p.is_private)
                        EXCEPT !.followed_by_viewer = Some(p.followed_by_viewer)]
               ELSE [s.found[1]
                        EXCEPT !.is_private = p.is_private,
                               !.followed_by_viewer = Some(p.followed_by_viewer)]
        profiles == {x \in d.profiles : x.id # row.id} \cup {row}
        hids == [i \in 1..Len(s.hashtags) |->
                    IF s.hashtags[i] = None
                       THEN HashtagId(hashtags, p.biography_hashtags[i])
                       ELSE s.hashtags[i][1].id]
        mids == [i \in 1..Len(s.mentions) |->
                    IF s.mentions[i] = None
                       THEN MentionId(mentions, p.biography_mentions[i])
                       ELSE s.mentions[i][1].id]
        addedH == AddedPairs(row.id, hids, s.loaded[1].hashtags)
        addedM == AddedPairs(row.id, mids, s.loaded[1].mentions)
        deletedH == s.loaded[1].hashtags \ {<<row.id, hids[i]>> : i \in 1..Len(hids)}
        deletedM == s.loaded[1].mentions \ {<<row.id, mids[i]>> : i \in 1..Len(mids)}
    IN  [db |-> [profiles |-> profiles,
                 hashtags |-> hashtags,
                 mentions |-> mentions,
                 profile_hashtags |-> (d.profile_hashtags \ deletedH) \cup Range(addedH),
                 profile_mentions |-> (d.profile_mentions \ deletedM) \cup Range(addedM)],
         ok |-> /\ UniqueTag(hashtags)
                /\ UniqueUsername(mentions)
                /\ UniqueUsername(profiles)
                /\ NoRepeat(addedH) /\ Range(addedH) \cap d.profile_hashtags = {}
                /\ NoRepeat(addedM) /\ Range(addedM) \cap d.profile_mentions = {}
                /\ deletedH \subseteq d.profile_hashtags
                /\ deletedM \subseteq d.profile_mentions,
         row |-> row]

\* Lines 223-232: the commit, and on any exception the rollback and the
\* return of None to _download, which logs the failure and continues.
CommitSession(r) ==
    LET s == sessions[r]
        f == FlushSession(db, s)
    IN  /\ s.pc = "assigned"
        /\ db' = IF f.ok THEN f.db ELSE Rollback(db, f.db)
        /\ sessions' = [sessions EXCEPT
              ![r].pc = "returned",
              ![r].db_profile = IF f.ok THEN Some(f.row) ELSE None]
        /\ UNCHANGED <<pc, users, highlights, conn, context_username, todo,
                       profile, db_profile, log>>
        /\ UNCHANGED fmVars

NextRace ==
    \E r \in Runs :
        \/ \E p \in RaceProfiles : SelectProfile(r, p)
        \/ SelectHashtag(r)
        \/ SelectMention(r)
        \/ AssignCollections(r)
        \/ CommitSession(r)

SpecRace == InitRace /\ [][NextRace]_vars

\* ------------------------------------------------------------------ properties

\* Positions of the log that hold a call `op` for `user`.
Calls(op, user) == {i \in 1..Len(log) : log[i].op = op /\ log[i].user = user}

\* Positions of the log at which _import_session was entered.
Imports == {i \in 1..Len(log) : log[i].op = "import_session"}

PerUserOps == {"fetch", "upsert", "download_profiles", "download_highlights"}

\* The roster entry whose loop iteration has just ended with a dispatch:
\* profile and db_profile still hold its fetched and its stored profile.
Dispatched ==
    /\ pc \in {"fetch", "done", "crashed"}
    /\ profile # None
    /\ db_profile # None

TagsOf(d, pid) == {h.tag : h \in {x \in d.hashtags : <<pid, x.id>> \in d.profile_hashtags}}

MentionsOf(d, pid) ==
    {m.username : m \in {x \in d.mentions : <<pid, x.id>> \in d.profile_mentions}}

\* The store holds exactly one record for p.username, and it has the fields
\* and the tag and mention sets of p.
RecordMatches(d, p) ==
    /\ Cardinality({r \in d.profiles : r.username = p.username}) = 1
    /\ \A r \in d.profiles : r.username = p.username =>
          /\ r.is_private = p.is_private
          /\ r.followed_by_viewer = Some(p.followed_by_viewer)
          /\ TagsOf(d, r.id) = Range(p.biography_hashtags)
          /\ MentionsOf(d, r.id) = Range(p.biography_mentions)

\* C1 (as claimed): no failure at a per-user stage ends the batch: the run
\* never stops on an exception while roster entries remain, and a completed
\* run has fetched every roster entry.
C1_BatchNeverAborted ==
    /\ ~(pc = "crashed" /\ todo # <<>>)
    /\ pc = "done" => \A u \in users : Calls("fetch", u) # {}

\* C2 (as claimed): a stored profile that is private and not followed by the
\* viewer gets the profile-picture-if-new retrieval and no full content
\* download.
C2_PictureOnlyRetrieval ==
    (Dispatched /\ db_profile[1].is_private /\ ~profile[1].followed_by_viewer)
        => /\ Calls("download_profilepic_if_new", profile[1].username) # {}
           /\ Calls("download_profiles", profile[1].username) = {}

\* C3: a stored profile that is public, or private and followed by the viewer,
\* gets the full content download exactly once, with tagged=false,
\* stories=true, reels=true; no full content download is made for a user
\* whose profile was not stored.
C3_FullContentOnce ==
    /\ (Dispatched /\ ~(db_profile[1].is_private /\ ~profile[1].followed_by_viewer))
          => Cardinality(Calls("download_profiles", profile[1].username)) = 1
    /\ \A i \in 1..Len(log) : log[i].op = "download_profiles" =>
          /\ log[i].tagged = FALSE /\ log[i].stories = TRUE /\ log[i].reels = TRUE
          /\ Calls("download_profiles", log[i].user) = {i}
          /\ i > 1 /\ log[i - 1] = Event("upsert", log[i].user, "ok")

C3_Witness ==
    /\ pc = "done"
    /\ \E i \in Calls("download_profiles", "alice") : log[i].res = "ok"
    /\ Calls("download_profiles", "bob") # {}
    /\ Dispatched /\ db_profile[1].is_private /\ profile[1].followed_by_viewer

\* C4: an upsert that fails returns None and leaves the store as it was before
\* the call; the user is skipped (the loop goes on to the next roster entry,
\* nothing is dispatched for it) and the run is not ended.
C4_FailedUpsertRollsBack ==
    [][(pc = "upsert" /\ db_profile' = None)
          => /\ db' = db
             /\ pc' = "fetch"
             /\ todo' = Tail(todo)
             /\ log' = Append(log, Event("upsert", Head(todo), "failed"))]_vars

C4_Witness ==
    /\ pc = "done"
    /\ \E i \in Calls("upsert", "alice") : log[i].res = "ok"
    /\ \E i \in Calls("upsert", "bob") : log[i].res = "failed"
    /\ Calls("download_profiles", "bob") = {}
    /\ \E r \in db.profiles : r.username = "alice" /\ TagsOf(db, r.id) # {}

\* C5 (as claimed): upserting the same payload twice leaves exactly one record
\* for the username, with the payload's tag and mention sets, and no two
\* hashtag or mention rows with the same text.
C5_SamePayloadTwice ==
    \A p \in StoreProfiles :
        LET once == UpsertProfileToDb(db, p, "none").db
            twice == UpsertProfileToDb(once, p, "none").db
        IN  /\ RecordMatches(twice, p)
            /\ UniqueTag(twice.hashtags)
            /\ UniqueUsername(twice.mentions)

\* C6: every upsert that returns a record leaves exactly one record for the
\* username, with the fetched scalar fields and with tag and mention sets
\* equal to the tokens of this fetch, whatever the record held before.
C6_RecordEqualsLatestFetch ==
    (pc = "start" /\ db_profile # None)
        => RecordMatches(db, profile[1]) /\ db_profile[1] \in db.profiles

\* An upsert returned a record that holds a tag, and a tag of an earlier fetch
\* is left without any profile.
C6_Witness ==
    /\ pc = "start"
    /\ db_profile # None
    /\ profile[1].biography_hashtags # <<>>
    /\ \E h \in db.hashtags : \A a \in db.profile_hashtags : a[2] # h.id

\* C7 (as claimed): every run authenticates exactly once.
C7_EveryRunAuthenticatesOnce ==
    pc = "done" => Cardinality(Imports) = 1

\* C7 (amended): a run over a non-empty roster authenticates exactly once,
\* before the first profile fetch, and every roster entry is processed under
\* the identity of that one session; a run over an empty roster does not
\* authenticate.
C7_OneAuthenticationPerRosterRun ==
    /\ Cardinality(Imports) <= 1
    /\ (users = {}) => Imports = {}
    /\ (users # {} /\ pc \in {"fetch", "upsert", "dispatch", "done"})
          => Cardinality(Imports) = 1
    /\ \A i \in 1..Len(log) : log[i].op \in PerUserOps =>
          \E j \in Imports : j < i /\ log[j].user = context_username

C7_Witness ==
    /\ pc = "done"
    /\ Cardinality(Imports) = 1
    /\ Calls("fetch", "alice") # {} /\ Calls("fetch", "bob") # {}

\* C8: a session import that finds no cookies or gets no identity from the
\* login test ends the process, and nothing is fetched, stored or downloaded
\* in that run: every per-user call comes after a session import that
\* returned a non-empty identity.
C8_NothingWithoutIdentity ==
    /\ \A i \in 1..Len(log) : log[i].op \in PerUserOps =>
          \E j \in Imports :
              j < i /\ log[j].res = "ok" /\ log[j].user \notin {NULL, ""}
    /\ \A j \in Imports : log[j].res = "exit" =>
          /\ pc = "exit"
          /\ j = Len(log)
          /\ \A i \in 1..Len(log) : log[i].op \notin PerUserOps
    /\ pc \in {"fetch", "upsert", "dispatch"} => context_username \notin {NULL, ""}

C8_Witness ==
    /\ pc = "exit"
    /\ users = {"alice", "bob"}
    /\ \E j \in Imports : log[j].res = "exit"

\* C9: without a cookie file the constructor ends the process (SystemExit)
\* and there is no session import, fetch or download.
C9_NoCookieFileIsFatal ==
    (log # <<>> /\ log[1].op = "init" /\ log[1].res = "missing")
        => /\ pc = "exit"
           /\ Len(log) = 1
           /\ conn = NULL
           /\ context_username = NULL

C9_Witness ==
    /\ pc = "exit"
    /\ Len(log) = 1 /\ log[1].op = "init" /\ log[1].res = "missing"
    /\ users # {}

\* C10 (as claimed): with an empty roster the process does not end fatally,
\* whatever the cookie file, and nothing is authenticated or fetched.
C10_EmptyRosterNeverFatal ==
    (log # <<>> /\ users = {})
        => /\ pc \in {"constructed", "done"}
           /\ Imports = {}
           /\ \A i \in 1..Len(log) : log[i].op \notin PerUserOps

\* C11 (as claimed): once run has returned or ended, by whatever path, the
\* cookie database that the constructor opened is closed.
C11_HandleClosedAtEndOfRun ==
    (pc \in {"done", "exit", "crashed"} /\ conn # NULL) => conn = "closed"

\* The tasks of the sweep in progress (or of the last sweep) that have
\* finished, with the status and the path of their results.
Finished == {i \in DOMAIN results : results[i] # None}
StatusOf(i) == results[i][1][1]
PathOf(i) == results[i][1][2]

\* The removal was attempted and the operating system refused it.
DeleteFailed(path) ==
    io[path].unlink \in {"PermissionError/OSError", "Exception", "exists/OSError"}

\* C12 (as claimed): in an age sweep every media file whose st_mtime is before
\* now - cutoff is removed, and no file whose st_mtime is not (files that
\* stat() or the removal failed on set aside).
C12_AgeSweepRemovesExactlyTheOlder ==
    \A i \in Finished :
        (job.op = "remove_old_files" /\ io[PathOf(i)].stat = "ok"
            /\ ~DeleteFailed(PathOf(i)))
        => IF files[PathOf(i)].st_mtime < Now - job.arg
              THEN StatusOf(i) = "removed" /\ ~files[PathOf(i)].present
              ELSE StatusOf(i) = "skipped" /\ files[PathOf(i)].present

\* C12 (amended): in an age sweep every media file with a positive st_mtime
\* before now - cutoff is removed (it is tallied as failed, and stays, when
\* the removal fails); a file whose st_mtime is not before now - cutoff, or
\* is not positive, or cannot be read because stat() fails, is skipped and
\* stays.
C12_AgeSweepRemovesTheValidOlder ==
    \A i \in Finished :
        job.op = "remove_old_files" =>
            LET f == files[PathOf(i)]
                a == io[PathOf(i)]
            IN  IF a.stat = "ok" /\ f.st_mtime > 0 /\ f.st_mtime < Now - job.arg
                   THEN IF DeleteFailed(PathOf(i))
                           THEN StatusOf(i) = "failed" /\ f.present
                           ELSE StatusOf(i) = "removed" /\ ~f.present
                   ELSE /\ StatusOf(i) = "skipped"
                        /\ a.unlink = "none"
                        /\ f.present = (a.stat # "FileNotFoundError")

\* An age sweep with a 30-day cutoff has returned: the T-40 file is gone, the
\* T-10 file, the T-30 file and the file with the epoch as st_mtime are there.
C12_Witness ==
    /\ sweep_pc = "returned"
    /\ job.op = "remove_old_files" /\ job.arg = 30
    /\ Len(job.items) = 4
    /\ files["a.jpg"].st_mtime = 90 /\ files["a.jpg"].present
    /\ files["b.PNG"].st_mtime = 0 /\ files["b.PNG"].present
    /\ files["c.webp"].st_mtime = 70 /\ files["c.webp"].present
    /\ files["d.mp4"].st_mtime = 60 /\ ~files["d.mp4"].present
    /\ removed_count = 1

\* Image.open returned an image for the file: its dimensions were inspected.
Inspected(path) == io[path].open = "ok"

\* C13: in a size sweep every image whose dimensions were read and whose
\* width or height is below the minimum is removed (tallied as failed, and
\* left, when the removal fails), and no image whose width and height are
\* both at least the minimum is removed.
C13_SizeSweepRemovesExactlyTheSmall ==
    \A i \in Finished :
        (job.op = "remove_small_images" /\ Inspected(PathOf(i))) =>
            LET f == files[PathOf(i)]
                size == f.image[1]
            IN  IF size[1] < job.arg[1] \/ size[2] < job.arg[2]
                   THEN IF DeleteFailed(PathOf(i))
                           THEN StatusOf(i) = "failed" /\ f.present
                           ELSE StatusOf(i) = "removed" /\ ~f.present
                   ELSE /\ StatusOf(i) = "skipped"
                        /\ f.present
                        /\ io[PathOf(i)].unlink = "none"

\* A size sweep with minimum (256, 256) has returned: the 300x300 image is
\* there, the 100x300 and the 300x100 image are gone.
C13_Witness ==
    /\ sweep_pc = "returned"
    /\ job.op = "remove_small_images" /\ job.arg = <<256, 256>>
    /\ files["a.jpg"].image = Some(<<300, 300>>) /\ files["a.jpg"].present
    /\ Inspected("a.jpg")
    /\ files["b.PNG"].image = Some(<<100, 300>>) /\ ~files["b.PNG"].present
    /\ files["c.webp"].image = Some(<<300, 100>>) /\ ~files["c.webp"].present
    /\ removed_count = 2

\* The size sweeps that have returned.
SizeSweeps == {k \in DOMAIN calls : calls[k].op = "remove_small_images"}

\* C14 (as claimed): a file with an image extension that Image.open cannot
\* identify is removed by the size sweep, and every size sweep gives such a
\* file the same status.
C14_UndecodableIsRemoved ==
    /\ \A i \in Finished :
          (job.op = "remove_small_images"
              /\ io[PathOf(i)].open = "UnidentifiedImageError")
          => StatusOf(i) = "removed" /\ ~files[PathOf(i)].present
    /\ \A k \in SizeSweeps : \A m \in SizeSweeps :
          \A i \in DOMAIN calls[k].results : \A j \in DOMAIN calls[m].results :
              (calls[k].items[i] = calls[m].items[j]
                  /\ files[calls[k].items[i]].image = None
                  /\ files[calls[k].items[i]].present)
              => calls[k].results[i] = calls[m].results[j]

\* The paths with status failed among the results of a returned sweep.
FailedPaths(call) ==
    {call.items[i] : i \in {j \in DOMAIN call.results : call.results[j][1][1] = "failed"}}

\* C15 (as claimed): every sweep that returns has logged its summary, and the
\* summary lists every path whose result is failed.
C15_EverySweepEndsWithSummary ==
    \A k \in DOMAIN calls :
        /\ calls[k].summary # None
        /\ Range(calls[k].summary[1].failed) = FailedPaths(calls[k])

\* stat(), Image.open or the removal failed on the file.
IoFailed(path) ==
    \/ io[path].stat \in {"OSError", "FileNotFoundError"}
    \/ io[path].open \in {"OSError", "ValueError"}
    \/ DeleteFailed(path)

\* C16 (as claimed): a task on which stat(), the read or the removal failed
\* returns the status failed, every other task of the sweep still runs, and
\* the sweep returns with a summary that lists the path.
C16_FailureIsTalliedAndSweepGoesOn ==
    /\ \A i \in Finished : IoFailed(PathOf(i)) => StatusOf(i) = "failed"
    /\ (sweep_pc = "returned" /\ job.items # <<>>) =>
          /\ Finished = DOMAIN results
          /\ calls[Len(calls)].summary # None
          /\ \A i \in Finished : IoFailed(PathOf(i)) =>
                PathOf(i) \in Range(calls[Len(calls)].summary[1].failed)

\* The positions among S whose result has the given status.
WithStatus(S, status) == {i \in S \cap Finished : StatusOf(i) = status}

\* C17: whatever the order in which the tasks of the pool finish, the tallies
\* are those of the results the calling thread has folded: removed_count is
\* the number of folded results with status removed and failed_removals
\* holds, once each, the paths of the folded results with status failed; a
\* sweep that logs its summary has folded every result, and the tasks
\* themselves leave both tallies alone.
C17_TalliesAreTheFoldedResults ==
    /\ folded \subseteq Finished
    /\ removed_count = Cardinality(WithStatus(folded, "removed"))
    /\ Range(failed_removals) = {PathOf(i) : i \in WithStatus(folded, "failed")}
    /\ Len(failed_removals) = Cardinality(WithStatus(folded, "failed"))
    /\ sweep_pc = "old" => folded = {}
    /\ sweep_pc = "returned" =>
          /\ folded = DOMAIN results
          /\ job.items # <<>> =>
                /\ calls[Len(calls)].summary # None
                /\ calls[Len(calls)].summary[1].removed = removed_count
                /\ calls[Len(calls)].summary[1].failed = failed_removals

\* A size sweep of three image files in two batches has returned with one
\* file removed and two failed, the second future of the first batch taken
\* from as_completed before the first.
C17_Witness ==
    /\ sweep_pc = "returned"
    /\ job.op = "remove_small_images"
    /\ Len(job.items) = 3
    /\ removed_count = 1
    /\ failed_removals = <<"b.PNG", "a.jpg">>

\* The usernames of the records of a store.
Stored(d) == {r.username : r \in d.profiles}

\* The command would give the username of a record to a second record: an
\* add of a stored username, a rename of a record to a stored username.
WouldDuplicate(d, command) ==
    \/ command.op = "add" /\ command.username \in Stored(d)
    \/ /\ command.op = "rename"
       /\ command.username \in Stored(d)
       /\ command.arg \in Stored(d)

\* C18: the store holds at most one record per username after every command,
\* import and upsert, and an add or rename that would give an existing
\* username to a second record is turned down by the command (add prints
\* "Skipped", rename prints "already exists") and leaves the store as it was.
C18_OneRecordPerUsername ==
    /\ UniqueUsername(db.profiles)
    /\ [][/\ UniqueUsername(db'.profiles)
          /\ WouldDuplicate(db, log'[1]) =>
                /\ db' = db
                /\ log'[1].res \in {"skipped", "exists"}]_vars

\* The store has handed out its third id, holds "bob" and "Bob", and the last
\* command, a rename of one to the other, was turned down.
C18_Witness ==
    /\ log = <<Command("rename", "bob", "Bob", "exists")>>
    /\ \E r \in db.profiles : r.id = 3
    /\ Cardinality(db.profiles) = 2

\* C19 (as claimed): no username is both a public and a private user, and the
\* upsert of a fetched profile whose username was neither leaves it a private
\* user and no public user when the fetch says private, a public user and no
\* private user when it says public.
C19_ExactlyOneTrackingSet ==
    /\ PublicSet(db) \cap PrivateSet(db) = {}
    /\ \A p \in StoreProfiles :
          p.username \notin PublicSet(db) \cup PrivateSet(db) =>
              LET after == UpsertProfileToDb(db, p, "none").db
              IN  IF p.is_private
                     THEN p.username \in PrivateSet(after) \ PublicSet(after)
                     ELSE p.username \in PublicSet(after) \ PrivateSet(after)

\* C20 (as claimed): the upsert of a profile fetched as private whose username
\* was a public user makes it a private user and no public user, and writes a
\* record of the transition, one that the same upsert made again does not
\* write; the second upsert leaves the public and the private users as they
\* are.
C20_TransitionRecordedOnce ==
    \A p \in StoreProfiles :
        (p.is_private /\ p.username \in PublicSet(db)) =>
            LET after == UpsertProfileToDb(db, p, "none").db
                again == UpsertProfileToDb(after, p, "none").db
            IN  /\ p.username \in PrivateSet(after) \ PublicSet(after)
                /\ Range(UpsertMessages(db, p, "none"))
                       \ Range(UpsertMessages(after, p, "none")) # {}
                /\ PublicSet(again) = PublicSet(after)
                /\ PrivateSet(again) = PrivateSet(after)

\* C21 (as claimed): every username whose fetch returned a profile is
\* persisted and dispatched, and an unfetchable username gives one logged
\* skip and no change of the store: the step that gets no profile leaves the
\* store alone and moves to the next roster entry; an upsert of a fetched
\* profile over a working connection stores it and goes on to the dispatch;
\* the dispatch of a stored profile retrieves something for that user.
C21_FetchedArePersistedAndDispatched ==
    [][/\ (pc = "fetch" /\ todo # <<>> /\ profile' = None)
            => /\ db' = db
               /\ todo' = Tail(todo)
               /\ log' = Append(log, Event("fetch", Head(todo), "none"))
       /\ (pc = "upsert"
             /\ db_profile' = UpsertProfileToDb(db, profile[1], "none").db_profile)
            => /\ db_profile' # None
               /\ pc' = "dispatch"
       /\ (pc = "dispatch")
            => \E i \in 1..Len(log') :
                  /\ i > Len(log)
                  /\ log'[i].user = Head(todo)
                  /\ log'[i].op \in {"download_profiles",
                                     "download_profilepic_if_new"}]_vars

\* C22 (as claimed): download_highlights is called only in a run whose
\* highlights flag is set, and whatever it raises, the content fetch of that
\* user has returned and the run goes on to the next roster entry.
C22_HighlightFailureIsContained ==
    /\ \A i \in 1..Len(log) : log[i].op = "download_highlights" => highlights
    /\ (log # <<>> /\ log[Len(log)] = Event("download_highlights",
                                             log[Len(log)].user, "raised"))
          => pc # "crashed"

CliOps == {"add", "remove", "update", "rename", "download"}

\* C24 (as claimed): a command that completes, a handled per-item failure
\* included (the user to add exists, the user to remove is not stored),
\* exits with code 0; a download that finds no credential store exits with a
\* non-zero code; and no handled outcome exits with a non-zero code.
C24_ExitCodes ==
    (log # <<>> /\ log[1].op \in CliOps)
        => /\ log[1].res \in {"added", "skipped", "removed", "not found", "updated",
                              "renamed", "exists", "exit"}
                => ExitCode(log[1]) = 0
           /\ (log[1].op = "download" /\ log[1].arg = "missing")
                => ExitCode(log[1]) # 0
           /\ ExitCode(log[1]) # 0
                => \/ log[1].res = "IntegrityError"
                   \/ log[1].op = "download" /\ log[1].arg # "found"

\* C25: add on a username that is not stored creates exactly one record, with
\* that username and with is_private equal to the --private flag, and leaves
\* every other row alone; add on a stored username reports it as existing and
\* leaves the store, the privacy flag of that record included, unchanged.
C25_AddCreatesOneRecordOrSkips ==
    [][(log'[1].op = "add")
          => IF \E r \in db.profiles : r.username = log'[1].username
                THEN /\ log'[1].res = "skipped"
                     /\ db' = db
                ELSE /\ log'[1].res = "added"
                     /\ \E r \in db'.profiles :
                          /\ r \notin db.profiles
                          /\ r.username = log'[1].username
                          /\ r.is_private = log'[1].arg
                          /\ db' = [db EXCEPT !.profiles = @ \cup {r}]]_vars

\* add --private has stored a record next to two others, and the store holds
\* a public record too.
C25_Witness ==
    /\ log = <<Command("add", "Bob", TRUE, "added")>>
    /\ \E r \in db.profiles : r.username = "Bob" /\ r.is_private
    /\ \E r \in db.profiles : r.username = "bob" /\ ~r.is_private
    /\ Cardinality(db.profiles) = 3

\* C26: remove on a stored username deletes the record of that username and
\* no other record: the other profiles, the hashtags, the mentions and the
\* tag and mention links of the other profiles stay; remove on a username
\* that is not stored reports not-found and leaves the store unchanged.
C26_RemoveDeletesExactlyThatRecord ==
    [][(log'[1].op = "remove" /\ log'[1].res # "exit")
          => LET found == {r \in db.profiles : r.username = log'[1].username}
             IN  IF found = {}
                    THEN /\ log'[1].res = "not found"
                         /\ db' = db
                    ELSE /\ log'[1].res = "removed"
                         /\ db'.profiles = db.profiles \ found
                         /\ Cardinality(found) = 1
                         /\ db'.hashtags = db.hashtags
                         /\ db'.mentions = db.mentions
                         /\ \A r \in db'.profiles :
                              /\ TagsOf(db', r.id) = TagsOf(db, r.id)
                              /\ MentionsOf(db', r.id) = MentionsOf(db, r.id)]_vars

\* remove has deleted alice and the two other records are still stored.
C26_Witness ==
    /\ log = <<Command("remove", "alice", NULL, "removed")>>
    /\ {r.username : r \in db.profiles} = {"bob", "Bob"}

\* C27: the stages of a roster entry come in the order fetch, persist,
\* dispatch, and one user at a time: an upsert directly follows the
\* successful fetch of the same user, a content download directly follows the
\* successful upsert of the same user, a highlights download directly follows
\* the content download of the same user, and the dispatch is entered only
\* with the record that this run's upsert has stored for the user at hand.
C27_StagesInOrderOneUserAtATime ==
    /\ \A i \in 1..Len(log) :
          /\ log[i].op = "upsert"
                => /\ i > 1
                   /\ log[i - 1].op = "fetch"
                   /\ log[i - 1].user = log[i].user
                   /\ log[i - 1].res = "ok"
          /\ log[i].op = "download_profiles"
                => /\ i > 1
                   /\ log[i - 1].op = "upsert"
                   /\ log[i - 1].user = log[i].user
                   /\ log[i - 1].res = "ok"
          /\ log[i].op = "download_highlights"
                => /\ i > 1
                   /\ log[i - 1].op = "download_profiles"
                   /\ log[i - 1].user = log[i].user
                   /\ log[i - 1].res = "ok"
    /\ pc = "upsert"
          => /\ profile # None
             /\ profile[1].username = Head(todo)
             /\ log[Len(log)].op = "fetch" /\ log[Len(log)].user = Head(todo)
    /\ pc = "dispatch"
          => /\ db_profile # None
             /\ db_profile[1] \in db.profiles
             /\ db_profile[1].username = Head(todo)
             /\ log[Len(log)].op = "upsert" /\ log[Len(log)].user = Head(todo)
             /\ log[Len(log)].res = "ok"

\* A finished run with highlights in which both roster entries went through
\* the three stages.
C27_Witness ==
    /\ pc = "done"
    /\ highlights
    /\ Len(log) = 10
    /\ log[3].op = "fetch" /\ log[3].user = "alice"
    /\ log[6].op = "download_highlights" /\ log[6].user = "alice"
    /\ log[7].op = "fetch" /\ log[7].user = "bob"
    /\ log[10].op = "download_highlights" /\ log[10].user = "bob"

\* C28 (as claimed): within one run no roster entry is fetched twice, and a
\* failure at a per-user stage (no profile fetched, upsert failed, download
\* raised) moves on to the next roster entry: the loop continues with the
\* failed entry no longer on the list.
C28_NoRetrySkipToNext ==
    /\ \A u \in Usernames : Cardinality(Calls("fetch", u)) <= 1
    /\ (log # <<>> /\ log[Len(log)].op \in PerUserOps
          /\ log[Len(log)].res \in {"none", "failed", "raised"})
          => /\ pc \in {"fetch", "done"}
             /\ log[Len(log)].user \notin Range(todo)

\* C29 (as claimed): however often a token text is resolved, several times
\* in the token list of one payload or for several users, the upsert
\* succeeds and the store holds exactly one hashtag row and one mention row
\* for that text.
C29_TokenResolvedOnce ==
    \A p \in StoreProfiles :
        LET r == UpsertProfileToDb(db, p, "none")
        IN  /\ r.db_profile # None
            /\ \A t \in Range(p.biography_hashtags) :
                  Cardinality({h \in r.db.hashtags : h.tag = t}) = 1
            /\ \A m \in Range(p.biography_mentions) :
                  Cardinality({x \in r.db.mentions : x.username = m}) = 1

\* No hashtag text and no mention username is stored in two rows.
OneRowPerText(d) ==
    /\ Cardinality({h.tag : h \in d.hashtags}) = Cardinality(d.hashtags)
    /\ Cardinality({m.username : m \in d.mentions}) = Cardinality(d.mentions)

\* C30: when two runs upsert at the same time, under every interleaving of
\* their statements the store never holds two hashtag rows or two mention
\* rows with one text; an upsert whose commit fails leaves the store as it
\* was and returns None to its run (the per-user failure), and an upsert
\* that returns a record has stored it.
C30_RaceLosesCleanly ==
    /\ OneRowPerText(db)
    /\ [][/\ OneRowPerText(db')
          /\ \A r \in Runs :
                (sessions[r].pc = "assigned" /\ sessions'[r].pc = "returned")
                   => IF sessions'[r].db_profile = None
                         THEN db' = db
                         ELSE sessions'[r].db_profile[1] \in db'.profiles]_vars

\* Both runs looked up the unseen tag t1 before either committed: one upsert
\* has returned a record, the other None, the store holds one row for t1 and
\* no profile of the run that lost.
C30_Witness ==
    /\ \A r \in Runs : sessions[r].pc = "returned"
    /\ \A r \in Runs : sessions[r].p[1].biography_hashtags = <<"t1">>
    /\ \A r \in Runs : sessions[r].hashtags = <<None>>
    /\ sessions["run1"].p[1].username = "alice"
    /\ sessions["run2"].p[1].username = "bob"
    /\ sessions["run1"].db_profile = None
    /\ sessions["run2"].db_profile # None
    /\ Cardinality({h \in db.hashtags : h.tag = "t1"}) = 1
    /\ \A x \in db.profiles : x.username # "alice"

\* ---- C31 ----------------------------------------------------------------
\* A step in which remove_old_files or remove_small_images is entered.
StartsSweep ==
    /\ sweep_pc \in {"idle", "returned"}
    /\ (sweep_pc' \in {"old", "small"} \/ calls' # calls)

\* C31: every retention pass evaluates exactly the allowlisted files that are
\* present when the pass starts: a size sweep evaluates the image files then
\* present, an age sweep the supported files then present, so a file an
\* earlier sweep of the same manager removed is no candidate of a later one.
C31_CandidatesArePresentAtStart ==
    [][StartsSweep =>
          \A i \in DOMAIN job'.items : files[job'.items[i]].present]_vars

\* ---- C32 ----------------------------------------------------------------
\* The extension of a path, compared without regard to letter case.
Extension(path) == Lower(Suffix(path))

\* C32: a sweep's candidates all have an extension of the supported list,
\* compared case-insensitively, and those of the size sweep an image
\* extension; no step removes a file whose extension is outside the supported
\* list, and no step of the size sweep removes a file without an image
\* extension.
C32_OnlyAllowlistedAreCandidates ==
    [][/\ \A i \in DOMAIN job'.items :
              /\ Extension(job'.items[i]) \in SUPPORTED_EXTENSIONS
              /\ job'.op = "remove_small_images" =>
                     Extension(job'.items[i]) \in IMAGE_EXTENSIONS
       /\ \A path \in Paths :
              /\ Extension(path) \notin SUPPORTED_EXTENSIONS =>
                     files'[path] = files[path]
              /\ (sweep_pc = "small" /\ Extension(path) \notin IMAGE_EXTENSIONS) =>
                     files'[path] = files[path]]_vars

\* The size sweep has removed b.PNG, a candidate by its lowered extension,
\* while the video and the text file of the directory are in place.
C32_Witness ==
    /\ job.op = "remove_small_images"
    /\ \E i \in Finished : PathOf(i) = "b.PNG" /\ StatusOf(i) = "removed"
    /\ files["d.mp4"].present
    /\ files["e.txt"].present

\* ---- C33 ----------------------------------------------------------------
\* The supported files of the directory whose stat() did not fail in the
\* last discovery.
Accessible ==
    {path \in Paths : /\ Extension(path) \in SUPPORTED_EXTENSIONS
                      /\ files[path].present
                      /\ path \notin problematic_files'}

\* C33: a discovery (the step of refresh, which starts no sweep) in which
\* stat() fails on an entry goes on: it leaves
\* every other supported file of the directory in the candidate list and the
\* failing entry out of it.
C33_DiscoveryGoesOnAfterFailure ==
    [][(sweep_pc \in {"idle", "returned"} /\ sweep_pc' = sweep_pc /\ calls' = calls) =>
          /\ {media_files'[i] : i \in DOMAIN media_files'} = Accessible
          /\ \A path \in problematic_files' :
                 \A i \in DOMAIN media_files' : media_files'[i] # path]_vars

\* A discovery has set a.jpg aside as problematic and found other files, and
\* a sweep then works on the files found.
C33_Witness ==
    /\ problematic_files = {"a.jpg"}
    /\ files["a.jpg"].present
    /\ media_files # <<>>
    /\ sweep_pc \in {"old", "small"}
    /\ \A i \in DOMAIN job.items : job.items[i] # "a.jpg"

\* ---- C34 ----------------------------------------------------------------
\* C34: a task of the size sweep on a file of more than LARGE_FILE_THRESHOLD
\* bytes neither opens the file nor tries to remove it, whatever the image in
\* it, and its status is skipped once stat() has given the size.
C34_LargeFileSkippedUnopened ==
    job.op = "remove_small_images" =>
        \A i \in Finished :
            files[PathOf(i)].st_size > LARGE_FILE_THRESHOLD =>
                /\ io[PathOf(i)].open = "none"
                /\ io[PathOf(i)].unlink = "none"
                /\ io[PathOf(i)].stat = "ok" =>
                       StatusOf(i) = "skipped" /\ files[PathOf(i)].present

\* The size sweep has skipped a present file of 100001 bytes holding an image
\* of 100 x 100, smaller than the minimum it was called with.
C34_Witness ==
    /\ job.op = "remove_small_images"
    /\ job.arg = <<256, 256>>
    /\ \E i \in Finished :
           /\ files[PathOf(i)].st_size = 100001
           /\ files[PathOf(i)].image = Some(<<100, 100>>)
           /\ files[PathOf(i)].present
           /\ StatusOf(i) = "skipped"

\* ---- C35 ----------------------------------------------------------------
\* The tasks of the sweep that have finished with the given status.
Yielded(status) == Cardinality(WithStatus(DOMAIN results, status))

\* One result per candidate: the tasks are the positions of the candidate
\* list, no path is listed twice, a finished task carries the path of its
\* position and one of the three statuses, the batches of the size sweep
\* hold every position exactly once, and a sweep that has returned has
\* finished every task.
OneResultPerCandidate ==
    /\ DOMAIN results = DOMAIN job.items
    /\ \A i, j \in DOMAIN job.items : job.items[i] = job.items[j] => i = j
    /\ \A i \in Finished :
           /\ PathOf(i) = job.items[i]
           /\ StatusOf(i) \in {"removed", "failed", "skipped"}
    /\ job.op = "remove_small_images" =>
           \A i \in DOMAIN job.items :
               Cardinality({b \in 0..(TotalBatches(Len(job.items)) - 1) :
                               i \in Batch(b, Len(job.items))}) = 1
    /\ sweep_pc = "returned" =>
           /\ Finished = DOMAIN job.items
           /\ Yielded("removed") + Yielded("failed") + Yielded("skipped")
                  = Len(job.items)

\* C35: in each sweep every candidate is evaluated exactly once and yields
\* one of removed, failed and skipped, the batches of the size sweep
\* partition the image list, and removed + failed + skipped is the number of
\* candidates when the sweep returns; a result, once yielded, is not replaced
\* while the sweep lasts.
C35_EveryCandidateYieldsOneStatus ==
    [][/\ OneResultPerCandidate'
       /\ ~StartsSweep => \A i \in Finished : results'[i] = results[i]]_vars

\* A size sweep of three image files, in two batches, has returned with one
\* file removed, one failed and one skipped.
C35_Witness ==
    /\ sweep_pc = "returned"
    /\ job.op = "remove_small_images"
    /\ Len(job.items) = 3
    /\ TotalBatches(Len(job.items)) = 2
    /\ Yielded("removed") = 1
    /\ Yielded("failed") = 1
    /\ Yielded("skipped") = 1

\* ---- C36 ----------------------------------------------------------------
\* The task went as far as _remove_file.
RemovalTried(path) == io[path].unlink # "none"

\* C36 (as claimed): a task that calls _remove_file reports removed exactly
\* when the file does not exist afterwards, also when another process deleted
\* the file in the meantime.
C36_RemovedIffGone ==
    \A i \in Finished :
        RemovalTried(PathOf(i)) =>
            (StatusOf(i) = "removed" <=> ~files[PathOf(i)].present)

\* ---- C37 ----------------------------------------------------------------
\* C37 (as claimed): when the download command has been executed, an
\* orchestrator has been constructed over the roster of one of the privacy
\* options all, public and private, and its run has been executed.
C37_DownloadRunsFilteredSync ==
    (log # <<>> /\ log[1].op = "download") =>
        /\ pc \notin {"start", "constructed"}
        /\ \E privacy \in Targets :
               users = {r.username : r \in
                           {x \in db.profiles :
                               \/ privacy = "all"
                               \/ privacy = "private" /\ x.is_private
                               \/ privacy = "public" /\ ~x.is_private}}

\* ---- C38 ----------------------------------------------------------------
\* The records of the store for a username, whatever their letter case.
RecordsFor(d, username) ==
    {r \in d.profiles : LowerName(r.username) = LowerName(username)}

\* The records of the store for the usernames that are not among `names`.
Unlisted(d, names) ==
    {r \in d.profiles : \A n \in names : LowerName(r.username) # LowerName(n)}

\* C38 (as claimed): after the import of the JSON lists `public` and
\* `private` the store holds, for every username of either list, exactly one
\* record, whatever the letter case of the records stored before, and its
\* is_private says whether the username is in the private list; the records
\* of the usernames in neither list are those of before.
C38_ImportSyncsListedUsers ==
    [][\A public \in SUBSET JsonNames, private \in SUBSET JsonNames,
          order \in Orders :
            ImportUsers(public, private, order) =>
                /\ \A n \in public \cup private :
                       /\ Cardinality(RecordsFor(db', n)) = 1
                       /\ \A r \in RecordsFor(db', n) :
                              r.is_private = (n \in private)
                /\ Unlisted(db', public \cup private)
                       = Unlisted(db, public \cup private)]_vars

====
